---- MODULE Spec2Model ----
(***************************************************************************)
(* A model of the jse-eval expression evaluator (src/index.ts): the        *)
(* per-node evaluators of class ExpressionEval, the evalSyncAsync helper   *)
(* with the promise job queue it relies on in asynchronous mode, the       *)
(* evaluator registries and the default options.                           *)
(***************************************************************************)
EXTENDS Integers, Sequences, FiniteSets, TLC

(***************************************************************************)
(* Operands.  Every operand is a record tagged by t; the other field names *)
(* differ from tag to tag.                                                 *)
(***************************************************************************)
UNDEF == [t |-> "undef"]
NULL == [t |-> "null"]
NAN == [t |-> "nan"]
Bool(b) == [t |-> "bool", b |-> b]
Num(n) == [t |-> "num", n |-> n]
Str(s) == [t |-> "str", s |-> s]
Obj(id) == [t |-> "obj", id |-> id]
Arr(a) == [t |-> "arr", a |-> a]
Native(f) == [t |-> "fn", f |-> f]
Closure(node, self) == [t |-> "clo", node |-> node, self |-> self]
Promise(p) == [t |-> "prom", p |-> p]
Err(kind, name) == [t |-> "err", e |-> kind, name |-> name]

\* JavaScript truthiness, as used by ||, &&, ?: and the !fn / !! tests.
Truthy(v) ==
  CASE v.t \in {"undef", "null", "nan"} -> FALSE
    [] v.t = "bool" -> v.b
    [] v.t = "num" -> v.n # 0
    [] v.t = "str" -> v.s # ""
    [] OTHER -> TRUE

\* typeof v === 'function'
IsFunction(v) == v.t \in {"fn", "clo"}

\* typeof v === 'undefined'
IsUndefined(v) == v.t = "undef"

(***************************************************************************)
(* Strings: property names are TLA+ strings; the two string computations   *)
(* of the evaluator (the member blocklist pattern and case folding) are    *)
(* computed on their characters.                                           *)
(***************************************************************************)
StartsWith(s, p) == Len(s) >= Len(p) /\ SubSeq(s, 1, Len(p)) = p
EndsWith(s, p) == Len(s) >= Len(p) /\ SubSeq(s, Len(s) - Len(p) + 1, Len(s)) = p
Contains(s, p) ==
  \E i \in 1..(Len(s) - Len(p) + 1) : SubSeq(s, i, i + Len(p) - 1) = p

LowerChar(c) ==
  CASE c = "A" -> "a" [] c = "B" -> "b" [] c = "C" -> "c" [] c = "D" -> "d"
    [] c = "E" -> "e" [] c = "F" -> "f" [] c = "H" -> "h" [] c = "I" -> "i"
    [] c = "L" -> "l" [] c = "N" -> "n" [] c = "O" -> "o" [] c = "P" -> "p"
    [] c = "R" -> "r" [] c = "S" -> "s" [] c = "T" -> "t" [] c = "U" -> "u"
    [] c = "X" -> "x" [] c = "Y" -> "y"
    [] OTHER -> c

RECURSIVE Lower(_)
Lower(s) ==
  IF Len(s) = 0 THEN s
  ELSE LowerChar(SubSeq(s, 1, 1)) \o Lower(SubSeq(s, 2, Len(s)))

\* a.localeCompare(b, 'en', {sensitivity: 'base'}) === 0 on the unaccented
\* names of the model.
SameBase(a, b) == Lower(a) = Lower(b)

DigitStr(n) ==
  CASE n = 0 -> "0" [] n = 1 -> "1" [] n = 2 -> "2" [] n = 3 -> "3"
    [] n = 4 -> "4" [] n = 5 -> "5" [] n = 6 -> "6" [] n = 7 -> "7"
    [] n = 8 -> "8" [] n = 9 -> "9"
    [] OTHER -> "n"

\* String(v): the property key a value stands for, and what RegExp.test sees.
RECURSIVE KeyString(_)
KeyString(v) ==
  CASE v.t = "str" -> v.s
    [] v.t = "num" -> IF v.n < 0 THEN "-" \o DigitStr(-v.n) ELSE DigitStr(v.n)
    [] v.t = "undef" -> "undefined"
    [] v.t = "null" -> "null"
    [] v.t = "nan" -> "NaN"
    [] v.t = "bool" -> IF v.b THEN "true" ELSE "false"
    [] v.t = "arr" ->
         IF Len(v.a) = 0 THEN ""
         ELSE IF Len(v.a) = 1 THEN KeyString(v.a[1])
         ELSE KeyString(v.a[1]) \o "," \o KeyString(Arr(Tail(v.a)))
    [] v.t = "obj" -> "[object Object]"
    [] OTHER -> "function"

(***************************************************************************)
(* AST nodes, as the parser hands them over: a type, the kind's fields and *)
(* an id standing for the node's identity (the annotations _value and      *)
(* _scope are kept per id).                                                *)
(***************************************************************************)
Lit(id, v) == [type |-> "Literal", id |-> id, value |-> v]
Ident(id, name) == [type |-> "Identifier", id |-> id, name |-> name]
ThisE(id) == [type |-> "ThisExpression", id |-> id]
Member(id, object, property, computed, optional) ==
  [type |-> "MemberExpression", id |-> id, object |-> object,
   property |-> property, computed |-> computed, optional |-> optional]
Binary(id, op, left, right) ==
  [type |-> "BinaryExpression", id |-> id, operator |-> op,
   left |-> left, right |-> right]
Unary(id, op, argument) ==
  [type |-> "UnaryExpression", id |-> id, operator |-> op, argument |-> argument]
Call(id, callee, args, optional) ==
  [type |-> "CallExpression", id |-> id, callee |-> callee,
   arguments |-> args, optional |-> optional]
Cond(id, test, consequent, alternate) ==
  [type |-> "ConditionalExpression", id |-> id, test |-> test,
   consequent |-> consequent, alternate |-> alternate]
Assign(id, op, left, right) ==
  [type |-> "AssignmentExpression", id |-> id, operator |-> op,
   left |-> left, right |-> right]
Update(id, op, prefix, argument) ==
  [type |-> "UpdateExpression", id |-> id, operator |-> op,
   prefix |-> prefix, argument |-> argument]
ObjectE(id, properties) ==
  [type |-> "ObjectExpression", id |-> id, properties |-> properties]
Prop(id, key, value, shorthand) ==
  [type |-> "Property", id |-> id, key |-> key, value |-> value,
   shorthand |-> shorthand]
Spread(id, argument) ==
  [type |-> "SpreadElement", id |-> id, argument |-> argument]
ArrayE(id, elements) ==
  [type |-> "ArrayExpression", id |-> id, elements |-> elements]
Arrow(id, params, body, async) ==
  [type |-> "ArrowFunctionExpression", id |-> id, params |-> params,
   body |-> body, async |-> async]
Await(id, argument) ==
  [type |-> "AwaitExpression", id |-> id, argument |-> argument]
New(id, callee, args) ==
  [type |-> "NewExpression", id |-> id, callee |-> callee, arguments |-> args]
\* A node kind contributed by a parser plugin: no built-in evaluator knows it.
PluginNode(id) == [type |-> "PluginNode", id |-> id]

\* A node passed where the code passes the node object itself as a value.
NodeRef(node) == [t |-> "node", node |-> node]

(***************************************************************************)
(* Options: {caseSensitive?: boolean}; an options argument that was not     *)
(* passed is UNDEF.  The scopes option needs Utils.getScopePair, which is  *)
(* not part of the evaluator source, and is left unset throughout.         *)
(***************************************************************************)
Options(cs) == [t |-> "opts", caseSensitive |-> cs]

(***************************************************************************)
(* Utils (./utils) and literals (./types)                                  *)
(***************************************************************************)
\* Whether a lookup under these options compares names exactly.
UtilsCaseSensitive(options) ==
  options.t = "opts" /\ Truthy(options.caseSensitive)

\* The key of object o that name resolves to under the options.
FindKey(o, name, options) ==
  IF name \in DOMAIN o THEN [found |-> TRUE, key |-> name]
  ELSE IF UtilsCaseSensitive(options) THEN [found |-> FALSE, key |-> name]
  ELSE LET ks == {k \in DOMAIN o : SameBase(k, name)}
       IN IF ks = {} THEN [found |-> FALSE, key |-> name]
          ELSE [found |-> TRUE, key |-> CHOOSE k \in ks : TRUE]

\* Utils.getKeyValue(obj, name, options): [key, value] of the stored slot, or
\* nothing when obj has no such slot.
GetKeyValue(heap, obj, name, options) ==
  IF obj.t # "obj" THEN [found |-> FALSE, key |-> name, value |-> UNDEF]
  ELSE LET f == FindKey(heap[obj.id], name, options)
       IN [found |-> f.found, key |-> f.key,
           value |-> IF f.found THEN heap[obj.id][f.key] ELSE UNDEF]

\* The literal-keyword table.
literals == [true |-> Bool(TRUE), false |-> Bool(FALSE), null |-> NULL]

\* Utils.getLiteralKeyValue(literals, name, options)
GetLiteralKeyValue(name, options) ==
  LET f == FindKey(literals, name, options)
  IN [found |-> f.found, key |-> f.key,
      value |-> IF f.found THEN literals[f.key] ELSE UNDEF]

(***************************************************************************)
(* The machine an evaluation runs on: the heap of objects (the context is  *)
(* one of them), the node annotations, the promises and the job queue of   *)
(* the host, and a log of what the evaluation did.                         *)
(***************************************************************************)
Ok(m, v) == [m |-> m, c |-> "ok", v |-> v]
Thr(m, e) == [m |-> m, c |-> "throw", v |-> e]

Event(ev, id, key, v) == [ev |-> ev, id |-> id, key |-> key, v |-> v]
Log(m, ev, id, key, v) == [m EXCEPT !.log = Append(@, Event(ev, id, key, v))]
Throw(m, id, kind, name) ==
  Thr(Log(m, "throw", id, kind, Str(name)), Err(kind, name))

EmptyObject == [k \in {} |-> UNDEF]
Put(o, key, v) == [k \in DOMAIN o \cup {key} |-> IF k = key THEN v ELSE o[k]]
Remove(o, key) == [k \in DOMAIN o \ {key} |-> o[k]]

\* a new object on the heap; its reference is Obj(Len(heap) + 1)
Alloc(m, o) == [m EXCEPT !.heap = Append(@, o)]
NewId(m) == Len(m.heap) + 1

\* obj[key] = v
Store(m, obj, key, v) == [m EXCEPT !.heap[obj.id] = Put(@, key, v)]

\* node._value = v
SetValue(m, node, v) ==
  [m EXCEPT !.ann = [i \in DOMAIN @ \cup {node.id} |->
                       IF i = node.id THEN v ELSE @[i]]]

\* Utils.getValue(obj, name, options): the value of the slot name resolves to.
\* Reading a property of undefined or null is a TypeError of the host.
GetValue(m, id, obj, key, options) ==
  CASE obj.t = "obj" ->
         Ok(Log(m, "get", id, KeyString(key), obj),
            GetKeyValue(m.heap, obj, KeyString(key), options).value)
    [] obj.t = "arr" ->
         Ok(Log(m, "get", id, KeyString(key), obj),
            IF key.t = "num" /\ key.n >= 0 /\ key.n < Len(obj.a)
            THEN obj.a[key.n + 1] ELSE UNDEF)
    [] obj.t \in {"undef", "null"} -> Throw(m, id, "TypeError", KeyString(key))
    [] OTHER -> Ok(Log(m, "get", id, KeyString(key), obj), UNDEF)

(***************************************************************************)
(* Promises of the host, as far as the evaluator uses them:                *)
(* Promise.resolve(v).then(cb), Promise.all and async functions.           *)
(***************************************************************************)
PendingPromise == [st |-> "pending", v |-> UNDEF, rs |-> <<>>, cnt |-> 0, vals |-> <<>>]
NewPromise(m) == [m EXCEPT !.proms = Append(@, PendingPromise)]
NewPromiseId(m) == Len(m.proms) + 1

ThenReaction(k, self, d) == [kind |-> "then", k |-> k, self |-> self, d |-> d, idx |-> 0]
AdoptReaction(d) == [kind |-> "adopt", k |-> UNDEF, self |-> UNDEF, d |-> d, idx |-> 0]
AllReaction(d, idx) == [kind |-> "all", k |-> UNDEF, self |-> UNDEF, d |-> d, idx |-> idx]

ReactJob(r, st, v) == [kind |-> "react", r |-> r, st |-> st, v |-> v, d |-> 0, q |-> 0]
ThenableJob(d, q) == [kind |-> "thenable", r |-> UNDEF, st |-> "ok", v |-> UNDEF, d |-> d, q |-> q]

Enqueue(m, job) == [m EXCEPT !.queue = Append(@, job)]

RECURSIVE EnqueueReactions(_, _, _, _)
EnqueueReactions(m, rs, st, v) ==
  IF rs = <<>> THEN m
  ELSE EnqueueReactions(Enqueue(m, ReactJob(Head(rs), st, v)), Tail(rs), st, v)

\* fulfil (st = "ok") or reject (st = "err") promise p
Settle(m, p, st, v) ==
  IF m.proms[p].st # "pending" THEN m
  ELSE EnqueueReactions(
         [m EXCEPT !.proms[p] = [@ EXCEPT !.st = st, !.v = v, !.rs = <<>>]],
         m.proms[p].rs, st, v)

\* the resolve function of promise p: a promise value is adopted in a later job
Resolve(m, p, v) ==
  IF v.t = "prom" THEN Enqueue(m, ThenableJob(p, v.p)) ELSE Settle(m, p, "ok", v)

\* q.then(...) with reaction r
AddReaction(m, q, r) ==
  IF m.proms[q].st = "pending"
  THEN [m EXCEPT !.proms[q].rs = Append(@, r)]
  ELSE Enqueue(m, ReactJob(r, m.proms[q].st, m.proms[q].v))

\* Promise.resolve(v): v itself when it is a promise, else a fulfilled promise
PromiseResolve(m, v) ==
  IF v.t = "prom" THEN Ok(m, v)
  ELSE Ok(Settle(NewPromise(m), NewPromiseId(m), "ok", v), Promise(NewPromiseId(m)))

\* q.then(k), for the promise q.v on machine q.m: the derived promise
Then(q, k, self) ==
  Ok(AddReaction(NewPromise(q.m), q.v.p, ThenReaction(k, self, NewPromiseId(q.m))),
     Promise(NewPromiseId(q.m)))

\* Promise.resolve(v).then(k)
ThenOf(m, v, k, self) == Then(PromiseResolve(m, v), k, self)

\* the resolution of promise d with the completion a of a callback or of an
\* async function's body
Resolved(a, d) ==
  IF a.c = "throw" THEN Settle(a.m, d, "err", a.v) ELSE Resolve(a.m, d, a.v)

AllItem(pr, P, i) == AddReaction(pr.m, pr.v.p, AllReaction(P, i))

RECURSIVE AllItems(_, _, _, _)
AllItems(m, vs, i, P) ==
  IF i > Len(vs) THEN m
  ELSE AllItems(AllItem(PromiseResolve(m, vs[i]), P, i), vs, i + 1, P)

AllPending(m, vs) ==
  [m EXCEPT !.proms = Append(@, [PendingPromise EXCEPT
              !.cnt = Len(vs), !.vals = [i \in 1..Len(vs) |-> UNDEF]])]

\* Promise.all(vs)
PromiseAll(m, vs) ==
  Ok(IF Len(vs) = 0 THEN Settle(AllPending(m, vs), NewPromiseId(m), "ok", Arr(<<>>))
     ELSE AllItems(AllPending(m, vs), vs, 1, NewPromiseId(m)),
     Promise(NewPromiseId(m)))

(***************************************************************************)
(* The process-wide state of the library and the caller's objects.         *)
(***************************************************************************)
VARIABLES
  evaluators,             \* ExpressionEval.evaluators: node kind -> evaluator
  conditionalEvaluators,  \* ExpressionEval.conditionalEvaluators: kind -> list
  defaultOptions,         \* ExpressionEval.defaultOptions
  heap,                   \* the caller's objects; heap[1] is the context
  ann,                    \* node id -> the node's _value annotation
  last,                   \* the latest top-level call and its outcome
  prev,                   \* the call before it
  calls,                  \* number of top-level calls made
  registered              \* the registration calls made, in order

vars == <<evaluators, conditionalEvaluators, defaultOptions, heap, ann, last,
          prev, calls, registered>>

(***************************************************************************)
(* Operator tables                                                         *)
(***************************************************************************)
ToNumber(v) ==
  CASE v.t = "num" -> v
    [] v.t = "bool" -> Num(IF v.b THEN 1 ELSE 0)
    [] v.t = "null" -> Num(0)
    [] OTHER -> NAN

Add(a, b) ==
  IF a.t = "str" \/ b.t = "str" THEN Str(KeyString(a) \o KeyString(b))
  ELSE IF ToNumber(a).t = "num" /\ ToNumber(b).t = "num"
       THEN Num(ToNumber(a).n + ToNumber(b).n)
       ELSE NAN

Sub(a, b) ==
  IF ToNumber(a).t = "num" /\ ToNumber(b).t = "num"
  THEN Num(ToNumber(a).n - ToNumber(b).n)
  ELSE NAN

\* ExpressionEval.binops[op](a, b), for the operators of the model
binops(op, a, b) ==
  CASE op = "||" -> IF Truthy(a) THEN a ELSE b
    [] op = "&&" -> IF Truthy(a) THEN b ELSE a
    [] op = "+" -> Add(a, b)
    [] op = "-" -> Sub(a, b)
    [] op = "===" -> Bool(a.t # "nan" /\ a = b)
    [] OTHER -> UNDEF

\* ExpressionEval.unops[op](a)
unops(op, a) ==
  CASE op = "!" -> Bool(~Truthy(a))
    [] op = "-" -> Sub(Num(0), a)
    [] OTHER -> UNDEF

\* obj[key], a plain property read of the host
HeapGet(m, obj, key) ==
  IF obj.t = "obj" /\ key \in DOMAIN m.heap[obj.id] THEN m.heap[obj.id][key]
  ELSE UNDEF

\* ExpressionEval.assignOps[op](obj, key, val): stores and returns the new value
assignOps(op, obj, key, val, id, m) ==
  LET new == CASE op = "=" -> val
               [] op = "+=" -> Add(HeapGet(m, obj, key), val)
               [] op = "-=" -> Sub(HeapGet(m, obj, key), val)
               [] OTHER -> UNDEF
  IN IF obj.t # "obj" THEN Throw(m, id, "TypeError", key)
     ELSE Ok(Log(Store(m, obj, key, new), "store", id, key, new), new)

\* evalUpdateOperation with the prefix and postfix results exchanged
evalUpdateOperationSwapped(node, destObj, destKey, m) ==
  LET old == ToNumber(HeapGet(m, destObj, destKey))
      new == IF node.operator = "++" THEN Add(old, Num(1)) ELSE Sub(old, Num(1))
  IN IF destObj.t # "obj" THEN Throw(m, node.id, "TypeError", destKey)
     ELSE Ok(Log(Store(m, destObj, destKey, new), "store", node.id, destKey, new),
             IF node.prefix THEN old ELSE new)

\* ExpressionEval.evalUpdateOperation(node, destObj, destKey)
evalUpdateOperation(node, destObj, destKey, m) ==
  LET old == ToNumber(HeapGet(m, destObj, destKey))
      new == IF node.operator = "++" THEN Add(old, Num(1)) ELSE Sub(old, Num(1))
  IN IF destObj.t # "obj" THEN Throw(m, node.id, "TypeError", destKey)
     ELSE Ok(Log(Store(m, destObj, destKey, new), "store", node.id, destKey, new),
             IF node.prefix THEN new ELSE old)

\* ExpressionEval.nodeFunctionName(callee)
nodeFunctionName(callee) ==
  IF callee.t # "node" THEN "undefined"
  ELSE IF callee.node.type = "Identifier" THEN callee.node.name
  ELSE IF callee.node.type = "MemberExpression"
          /\ callee.node.property.type = "Identifier"
       THEN callee.node.property.name
  ELSE "undefined"

\* ExpressionEval.validateFnAndCall(fn, callee, caller)
validateFnAndCall(fn, callee, caller, id, m) ==
  IF ~IsFunction(fn)
  THEN IF ~Truthy(fn) /\ caller.t = "node" /\ caller.node.optional
       THEN Ok(Log(m, "callee", id, "", fn), Arr(<<Native("noop"), callee>>))
       ELSE Throw(Log(m, "callee", id, "", fn), id, "NotCallable",
                  nodeFunctionName(IF caller.t = "node" THEN caller ELSE callee))
  ELSE Ok(Log(m, "callee", id, "", fn), Arr(<<fn, callee>>))

\* the blocklist without its last alternative
BlockedKeyNoConstructor(key) ==
  \/ StartsWith(key, "__proto__")
  \/ Contains(key, "prototype")

\* the member blocklist /^__proto__|prototype|constructor$/.test(key)
BlockedKey(key) ==
  \/ StartsWith(key, "__proto__")
  \/ Contains(key, "prototype")
  \/ EndsWith(key, "constructor")

\* get caseSensitive()
caseSensitive(self) ==
  Truthy(self.options) /\ Truthy(self.options.caseSensitive)

\* new ExpressionEval(context, isAsync, options)
ExpressionEval(context, isAsync, options) ==
  [context |-> context, isAsync |-> isAsync,
   options |-> IF Truthy(options) THEN options ELSE defaultOptions]

IsAsync(self) == Truthy(self.isAsync)

\* user-registered predicates: each is a function of the node and the context
predicate(p, node, context, m) ==
  CASE p = "always" -> TRUE
    [] p = "never" -> FALSE
    [] p = "xTruthy" -> Truthy(HeapGet(m, context, "x"))
    [] OTHER -> FALSE

\* [...arr, ...v] and arr.push(v) of evalArray's toFullArray
RECURSIVE toFullArray(_, _, _, _)
toFullArray(list, res, i, arr) ==
  IF i > Len(list) THEN [c |-> "ok", v |-> Arr(arr)]
  ELSE IF list[i].type = "SpreadElement"
       THEN IF res[i].t = "arr"
            THEN toFullArray(list, res, i + 1, arr \o res[i].a)
            ELSE [c |-> "throw", v |-> Err("TypeError", "spread")]
       ELSE toFullArray(list, res, i + 1, Append(arr, res[i]))

\* Object.assign(obj, src)
ObjectAssign(m, obj, src) ==
  IF src.t = "obj"
  THEN [m EXCEPT !.heap[obj.id] =
          [k \in DOMAIN @ \cup DOMAIN m.heap[src.id] |->
             IF k \in DOMAIN m.heap[src.id] THEN m.heap[src.id][k] ELSE @[k]]]
  ELSE m

(***************************************************************************)
(* Continuations: the callbacks the evaluators hand to eval and            *)
(* evalSyncAsync, each with the variables it closes over.                  *)
(***************************************************************************)
KId == [k |-> "id"]
KSetValue(node, cb) == [k |-> "setValue", node |-> node, cb |-> cb]
KOr(node) == [k |-> "or", node |-> node]
KAnd(node) == [k |-> "and", node |-> node]
KBinop(node) == [k |-> "binop", node |-> node]
KCond(node) == [k |-> "cond", node |-> node]
KUnary(node) == [k |-> "unary", node |-> node]
KMemberKey(node) == [k |-> "memberKey", node |-> node]
KMemberGet(node, object) == [k |-> "memberGet", node |-> node, object |-> object]
KMemberVal == [k |-> "memberVal"]
KValidateMember(callee) == [k |-> "validateMember", node |-> callee]
KValidate(callee) == [k |-> "validate", node |-> callee]
KCallFn(node) == [k |-> "callFn", node |-> node]
KCallApply(node, fn, caller) ==
  [k |-> "callApply", node |-> node, fn |-> fn, caller |-> caller]
KAssignTarget(node) == [k |-> "assignTarget", node |-> node]
KAssignOp(node, destObj, destKey) ==
  [k |-> "assignOp", node |-> node, destObj |-> destObj, destKey |-> destKey]
KUpdateOp(node) == [k |-> "updateOp", node |-> node]
KCtxKeyMember == [k |-> "ctxKeyMember"]
KCtxKeyCond(node) == [k |-> "ctxKeyCond", node |-> node]
KPropKey(prop, obj) == [k |-> "propKey", node |-> prop, obj |-> obj]
KPropSet(prop, obj, key) == [k |-> "propSet", node |-> prop, obj |-> obj, key |-> key]
KObjDone(obj) == [k |-> "objDone", obj |-> obj]
KToFullArray(list) == [k |-> "toFullArray", list |-> list]
KNewCtor(node) == [k |-> "newCtor", node |-> node]
KConstruct(node, ctor) == [k |-> "construct", node |-> node, ctor |-> ctor]

(***************************************************************************)
(* The evaluators.  Each returns a completion: the machine it leaves, and  *)
(* the value it returned or the error it threw.  An operand that is itself *)
(* a completion (val, acc, r) was computed by the caller's argument        *)
(* expression: when that threw, the call never happens.                    *)
(***************************************************************************)
RECURSIVE Trampoline(_), EvalList(_, _, _, _),
          evalObjectProperties(_, _, _, _, _),
          BindParams(_, _, _, _, _), BindElements(_, _, _, _, _, _),
          BindProperties(_, _, _, _, _, _), FirstMatch(_, _, _, _, _),
          LogPredicates(_, _, _, _, _, _)

\* this.eval(node, cb): a call of eval
Eval(node, cb, self, m) ==
  Trampoline([op |-> "eval", node |-> node, k |-> cb, v |-> UNDEF, self |-> self, m |-> m])

\* cb(v): a call of a callback
Apply(k, v, self, m) ==
  Trampoline([op |-> "callback", node |-> UNDEF, k |-> k, v |-> v, self |-> self, m |-> m])

\* evalSyncAsync(val, cb)
evalSyncAsync(val, cb, self) ==
  IF val.c = "throw" THEN val
  ELSE IF IsAsync(self) THEN ThenOf(val.m, val.v, cb, self)
  ELSE Apply(cb, val.v, self, val.m)

\* this.isAsync ? Promise.all(vals).then(cb) : cb(vals)
allSyncAsync(vals, cb, self) ==
  IF vals.c = "throw" THEN vals
  ELSE IF IsAsync(self) THEN Then(PromiseAll(vals.m, vals.v.a), cb, self)
  ELSE Apply(cb, vals.v, self, vals.m)

\* static eval(ast, context, options)
StaticEval(ast, context, options, m) ==
  Eval(ast, KId, ExpressionEval(context, UNDEF, options), m)

\* static async evalAsync(ast, context, options): the promise of the async
\* function, rejected when the body throws, resolved with what it returns
StaticEvalAsync(ast, context, options, m) ==
  Ok(Resolved(Eval(ast, KId, ExpressionEval(context, Bool(TRUE), options),
                   NewPromise(m)),
              NewPromiseId(m)),
     Promise(NewPromiseId(m)))

\* the index of the first conditional evaluator from i on whose predicate
\* holds, 0 when there is none
FirstMatch(list, i, node, self, m) ==
  IF i > Len(list) THEN 0
  ELSE IF predicate(list[i].predicate, node, self.context, m) THEN i
  ELSE FirstMatch(list, i + 1, node, self, m)

\* the predicates eval called, each with what it returned
LogPredicates(m, list, i, n, node, self) ==
  IF i > n THEN m
  ELSE LogPredicates(Log(m, "predicate", node.id, list[i].predicate,
                         Bool(predicate(list[i].predicate, node, self.context, m))),
                     list, i + 1, n, node, self)

\* arr.push(v) of a map: the results so far and the next one
Push(acc, r) ==
  IF r.c = "throw" THEN r ELSE Ok(r.m, Arr(Append(acc.v.a, r.v)))

\* list.map(v => this.eval(v))
EvalList(list, i, acc, self) ==
  IF acc.c = "throw" \/ i > Len(list) THEN acc
  ELSE EvalList(list, i + 1, Push(acc, Eval(list[i], KId, self, acc.m)), self)

evalArray(list, self, m) ==
  allSyncAsync(EvalList(list, 1, Ok(m, Arr(<<>>)), self), KToFullArray(list), self)

evalBinaryExpression(node, self, m) ==
  IF node.operator = "||" THEN Eval(node.left, KOr(node), self, m)
  ELSE IF node.operator = "&&" THEN Eval(node.left, KAnd(node), self, m)
  ELSE allSyncAsync(EvalList(<<node.left, node.right>>, 1, Ok(m, Arr(<<>>)), self),
                    KBinop(node), self)

evaluateMember(node, self, m) == Eval(node.object, KMemberKey(node), self, m)

evalMemberExpression(node, self, m) ==
  evalSyncAsync(evaluateMember(node, self, m), KMemberVal, self)

evalCall(callee, self, m) ==
  IF callee.type = "MemberExpression"
  THEN evalSyncAsync(evaluateMember(callee, self, m), KValidateMember(callee), self)
  ELSE IF callee.type = "Identifier"
  THEN LET fn == GetValue(m, callee.id, self.context, Str(callee.name), self.options)
       IN IF fn.c = "throw" THEN fn
          ELSE validateFnAndCall(fn.v, NodeRef(callee), UNDEF, callee.id, fn.m)
  ELSE Eval(callee, KValidate(callee), self, m)

evalCallExpression(node, self, m) ==
  evalSyncAsync(evalCall(node.callee, self, m), KCallFn(node), self)

evalIdentifier(node, self, m) ==
  IF caseSensitive(self)
  THEN GetValue(m, node.id, self.context, Str(node.name), self.options)
  ELSE IF SameBase(node.name, "this") THEN Ok(m, self.context)
  ELSE LET literal == GetLiteralKeyValue(node.name, self.options)
           m1 == Log(m, "literals", node.id, node.name, UNDEF)
       IN IF literal.found THEN Ok(m1, literal.value)
          ELSE GetValue(m1, node.id, self.context, Str(node.name), self.options)

\* When the mode differs from node.async the node is evaluated again by
\* evalAsync or eval.  An evaluator made by eval (isAsync undefined) that
\* meets an arrow whose async is false calls eval, whose evaluator is in the
\* same position: the calls nest until the host's stack is exhausted.
evalArrowFunctionExpression(node, self, m) ==
  IF self.isAsync # node.async
  THEN IF Truthy(node.async)
       THEN StaticEvalAsync(node, self.context, UNDEF, m)
       ELSE IF self.isAsync = UNDEF
       THEN Throw(m, node.id, "RangeError", "Maximum call stack size exceeded")
       ELSE StaticEval(node, self.context, UNDEF, m)
  ELSE Ok(m, Closure(node, self))

\* getContextAndKey taking an identifier's name as written
getContextAndKeyAsWritten(node, self, m) ==
  IF node.type = "MemberExpression"
  THEN evalSyncAsync(evaluateMember(node, self, m), KCtxKeyMember, self)
  ELSE IF node.type = "Identifier"
  THEN Ok(m, Arr(<<self.context, Str(node.name)>>))
  ELSE IF node.type = "ConditionalExpression"
  THEN Eval(node.test, KCtxKeyCond(node), self, m)
  ELSE Throw(m, node.id, "InvalidAssignmentTarget", "Invalid Member Key")

getContextAndKey(node, self, m) ==
  IF node.type = "MemberExpression"
  THEN evalSyncAsync(evaluateMember(node, self, m), KCtxKeyMember, self)
  ELSE IF node.type = "Identifier"
  THEN LET keyValue == GetKeyValue(m.heap, self.context, node.name, self.options)
       IN Ok(m, Arr(<<self.context, Str(keyValue.key)>>))
  ELSE IF node.type = "ConditionalExpression"
  THEN Eval(node.test, KCtxKeyCond(node), self, m)
  ELSE Throw(m, node.id, "InvalidAssignmentTarget", "Invalid Member Key")

evalAssignmentExpression(node, self, m) ==
  evalSyncAsync(getContextAndKey(node.left, self, m), KAssignTarget(node), self)

evalUpdateExpression(node, self, m) ==
  evalSyncAsync(getContextAndKey(node.argument, self, m), KUpdateOp(node), self)

evalAwaitExpression(node, self, m) ==
  StaticEvalAsync(node.argument, self.context, UNDEF, m)

evalNewExpression(node, self, m) ==
  evalSyncAsync(evalCall(node.callee, self, m), KNewCtor(node), self)

\* Object.assign(obj, r) on the outcome r of the spread argument; the map
\* callback returns nothing
spreadProperty(prop, arr, obj, r) ==
  IF r.c = "throw" THEN r
  ELSE Ok(Log(ObjectAssign(r.m, obj, r.v), "assign", prop.id, "", r.v),
          Arr(Append(arr.v.a, UNDEF)))

\* the map callback of evalObjectExpression, on one property
evalObjectProperty(prop, arr, obj, self) ==
  IF prop.type = "SpreadElement"
  THEN spreadProperty(prop, arr, obj,
                      StaticEval(prop.argument, self.context, self.options, arr.m))
  ELSE IF prop.type = "Property"
  THEN Push(arr, evalSyncAsync(IF prop.key.type = "Identifier"
                               THEN Ok(arr.m, Str(prop.key.name))
                               ELSE Eval(prop.key, KId, self, arr.m),
                               KPropKey(prop, obj), self))
  ELSE Push(arr, Ok(arr.m, UNDEF))

\* node.properties.map(...) of evalObjectExpression
evalObjectProperties(props, i, arr, obj, self) ==
  IF arr.c = "throw" \/ i > Len(props) THEN arr
  ELSE evalObjectProperties(props, i + 1,
                            evalObjectProperty(props[i], arr, obj, self), obj, self)

\* this.isAsync ? Promise.all(arr).then(() => obj) : obj
objectResult(arr, obj, self) ==
  IF arr.c = "throw" THEN arr
  ELSE IF IsAsync(self) THEN Then(PromiseAll(arr.m, arr.v.a), KObjDone(obj), self)
  ELSE Ok(arr.m, obj)

evalObjectExpression(node, self, m) ==
  objectResult(evalObjectProperties(node.properties, 1,
                                    Ok(Alloc(m, EmptyObject), Arr(<<>>)),
                                    Obj(NewId(m)), self),
               Obj(NewId(m)), self)

\* construct naming the node itself instead of its callee
constructUnnamed(ctor, args, node, m) ==
  IF ctor.t = "fn" /\ ctor.f = "Box"
  THEN Ok(Alloc(m, [v |-> IF Len(args) > 0 THEN args[1] ELSE UNDEF]), Obj(NewId(m)))
  ELSE Throw(m, node.id, "NotConstructible", nodeFunctionName(NodeRef(node)))

\* ExpressionEval.construct(ctor, args, node).  Of the functions of the model
\* only Box can be instantiated: the others stand for arrow functions and
\* methods, on which new throws.
construct(ctor, args, node, m) ==
  IF ctor.t = "fn" /\ ctor.f = "Box"
  THEN Ok(Alloc(m, [v |-> IF Len(args) > 0 THEN args[1] ELSE UNDEF]), Obj(NewId(m)))
  ELSE Throw(m, node.id, "NotConstructible", nodeFunctionName(NodeRef(node.callee)))

\* the evaluator functions, by the name the registries know them under
RunEvaluator(evaluator, node, self, m) ==
  CASE evaluator = "evalLiteral" -> Ok(m, node.value)
    [] evaluator = "evalIdentifier" -> evalIdentifier(node, self, m)
    [] evaluator = "evalThisExpression" -> Ok(m, self.context)
    [] evaluator = "evalMemberExpression" -> evalMemberExpression(node, self, m)
    [] evaluator = "evalBinaryExpression" -> evalBinaryExpression(node, self, m)
    [] evaluator = "evalUnaryExpression" ->
         Eval(node.argument, KUnary(node), self, m)
    [] evaluator = "evalCallExpression" -> evalCallExpression(node, self, m)
    [] evaluator = "evalConditionalExpression" ->
         Eval(node.test, KCond(node), self, m)
    [] evaluator = "evalArrayExpression" -> evalArray(node.elements, self, m)
    [] evaluator = "evalArrowFunctionExpression" ->
         evalArrowFunctionExpression(node, self, m)
    [] evaluator = "evalAssignmentExpression" ->
         evalAssignmentExpression(node, self, m)
    [] evaluator = "evalUpdateExpression" -> evalUpdateExpression(node, self, m)
    [] evaluator = "evalAwaitExpression" -> evalAwaitExpression(node, self, m)
    [] evaluator = "evalNewExpression" -> evalNewExpression(node, self, m)
    [] evaluator = "evalObjectExpression" -> evalObjectExpression(node, self, m)
    [] evaluator = "evalSpreadElement" -> Eval(node.argument, KId, self, m)
    [] OTHER -> Ok(m, Str(evaluator))   \* a user-registered evaluator

\* ExpressionEval.conditionalEvaluators[node.type], empty when there is none
conditionalList(node) ==
  IF node.type \in DOMAIN conditionalEvaluators
  THEN conditionalEvaluators[node.type] ELSE <<>>

\* eval going straight to ExpressionEval.evaluators[node.type]
evaluatorForUnconditional(list, hit, node) ==
  IF node.type \in DOMAIN evaluators THEN evaluators[node.type] ELSE "undefined"

\* the evaluator eval settles on: that of the conditional entry hit, else
\* ExpressionEval.evaluators[node.type]
evaluatorFor(list, hit, node) ==
  IF hit # 0 THEN list[hit].evaluator
  ELSE IF node.type \in DOMAIN evaluators THEN evaluators[node.type]
  ELSE "undefined"

\* the rest of eval once the evaluator is chosen
dispatch(evaluator, node, cb, self, m) ==
  IF evaluator = "undefined"
  THEN Throw(m, node.id, "UnknownNodeKind", node.type)
  ELSE evalSyncAsync(RunEvaluator(evaluator, node, self,
                                  Log(Log(m, "evaluator", node.id, evaluator,
                                          Str(node.type)),
                                      "options", node.id, "", self.options)),
                     KSetValue(node, cb), self)

\* eval(node, cb)
eval(node, cb, self, m) ==
  LET list == conditionalList(node)
      hit == FirstMatch(list, 1, node, self, m)
  IN dispatch(evaluatorFor(list, hit, node), node, cb, self,
              LogPredicates(m, list, 1, IF hit = 0 THEN Len(list) ELSE hit, node, self))

(***************************************************************************)
(* Arrow functions: binding the parameters, and calling                    *)
(***************************************************************************)
ArgAt(args, i) == IF i <= Len(args) THEN args[i] ELSE UNDEF

\* arrowArgs[i] = v
SetArg(args, i, v) ==
  [j \in 1..(IF i > Len(args) THEN i ELSE Len(args)) |->
     IF j = i THEN v ELSE ArgAt(args, j)]

\* v[key], a plain property read of the host on an argument
Index(m, v, key) ==
  CASE v.t = "arr" ->
         IF key.t = "num" /\ key.n >= 0 /\ key.n < Len(v.a)
         THEN v.a[key.n + 1] ELSE UNDEF
    [] v.t = "obj" -> HeapGet(m, v, KeyString(key))
    [] OTHER -> UNDEF

Nullish(v) == v.t \in {"undef", "null"}

\* arrowContext[el.name] = val, for the value val of an array element
StoreElement(el, actx, val) ==
  IF val.c = "throw" THEN val
  ELSE IF el.type = "Identifier"
  THEN Ok(Store(val.m, actx, el.name, val.v), actx)
  ELSE Throw(val.m, el.id, "InvalidParameter", "Unexpected arrow function argument")

\* the forEach callback over the elements of an array pattern
BindElement(el, j, arg, actx, self, m) ==
  IF Nullish(arg) THEN Throw(m, el.id, "TypeError", "undefined")
  ELSE StoreElement(IF el.type = "AssignmentExpression" THEN el.left ELSE el, actx,
                    IF el.type = "AssignmentExpression"
                       /\ IsUndefined(Index(m, arg, Num(j - 1)))
                    THEN Eval(el.right, KId, self, m)
                    ELSE Ok(m, Index(m, arg, Num(j - 1))))

\* param.elements.forEach(...)
BindElements(elements, j, arg, actx, self, r) ==
  IF r.c = "throw" \/ j > Len(elements) THEN r
  ELSE BindElements(elements, j + 1, arg, actx, self,
                    BindElement(elements[j], j, arg, actx, self, r.m))

\* this.eval(p.key).toString()
keyToString(r) == IF r.c = "throw" THEN r ELSE Ok(r.m, Str(KeyString(r.v)))

\* the key a property of an object pattern binds
PropertyKey(p, self, m) ==
  IF p.type = "Property"
  THEN IF p.key.type = "Identifier" THEN Ok(m, Str(p.key.name))
       ELSE keyToString(Eval(p.key, KId, self, m))
  ELSE IF p.type = "Identifier" THEN Ok(m, Str(p.name))
  ELSE IF p.type = "SpreadElement" /\ p.argument.type = "Identifier"
  THEN Ok(m, Str(p.argument.name))
  ELSE Throw(m, p.id, "InvalidParameter", "Unexpected arrow function argument")

\* {...arg} with every key left in
RestWholeCopy(m, arg, keys) ==
  IF arg.t = "obj" THEN m.heap[arg.id] ELSE EmptyObject

\* {...arg} without the keys bound so far
Rest(m, arg, keys) ==
  IF arg.t = "obj"
  THEN [k \in DOMAIN m.heap[arg.id] \ {keys[i].s : i \in 1..Len(keys)} |->
          m.heap[arg.id][k]]
  ELSE EmptyObject

\* the value a property of an object pattern binds
PropertyValue(prop, p, key, keys, arg, self) ==
  IF key.c = "throw" THEN key
  ELSE IF Nullish(arg) THEN Throw(key.m, p.id, "TypeError", key.v.s)
  ELSE IF p.type = "SpreadElement"
  THEN Ok(Alloc(key.m, Rest(key.m, arg, keys)), Obj(NewId(key.m)))
  ELSE IF IsUndefined(Index(key.m, arg, key.v)) /\ prop.type = "AssignmentExpression"
  THEN Eval(prop.right, KId, self, key.m)
  ELSE Ok(key.m, Index(key.m, arg, key.v))

\* arrowContext[key] = val; keys.push(key)
StoreProperty(actx, keys, key, val) ==
  IF val.c = "throw" THEN val
  ELSE Ok(Store(val.m, actx, key.v.s, val.v), Arr(Append(keys, key.v)))

\* the forEach callback over the properties of an object pattern
BindProperty(prop, p, keys, arg, actx, self, key) ==
  StoreProperty(actx, keys, key, PropertyValue(prop, p, key, keys, arg, self))

\* param.properties.forEach(...); r carries the keys bound so far
BindProperties(props, j, arg, actx, self, r) ==
  IF r.c = "throw" \/ j > Len(props) THEN r
  ELSE BindProperties(props, j + 1, arg, actx, self,
         BindProperty(props[j],
                      IF props[j].type = "AssignmentExpression"
                      THEN props[j].left ELSE props[j],
                      r.v.a, arg, actx, self,
                      PropertyKey(IF props[j].type = "AssignmentExpression"
                                  THEN props[j].left ELSE props[j], self, r.m)))

\* arrowArgs[i] = this.eval(param.right)
DefaultArg(arrowArgs, i, r) ==
  IF r.c = "throw" THEN r ELSE Ok(r.m, Arr(SetArg(arrowArgs, i, r.v)))

\* the arguments stay as they are when a pattern was bound
Bound(arrowArgs, r) == IF r.c = "throw" THEN r ELSE Ok(r.m, arrowArgs)

\* the binding of parameter i once its default is settled; args carries
\* arrowArgs
BindTo(param, i, actx, self, args) ==
  IF args.c = "throw" THEN args
  ELSE IF param.type = "Identifier"
  THEN Ok(Store(args.m, actx, param.name, ArgAt(args.v.a, i)), args.v)
  ELSE IF param.type = "ArrayExpression"
  THEN Bound(args.v, BindElements(param.elements, 1, ArgAt(args.v.a, i), actx, self,
                                  Ok(args.m, actx)))
  ELSE IF param.type = "ObjectExpression"
  THEN Bound(args.v, BindProperties(param.properties, 1, ArgAt(args.v.a, i), actx,
                                    self, Ok(args.m, Arr(<<>>))))
  ELSE IF param.type = "SpreadElement" /\ param.argument.type = "Identifier"
  THEN Ok(Store(args.m, actx, param.argument.name,
                Arr(SubSeq(args.v.a, i, Len(args.v.a)))),
          args.v)
  ELSE Throw(args.m, param.id, "InvalidParameter",
             "Unexpected arrow function argument")

\* the forEach callback over node.params
BindParam(param, i, arrowArgs, actx, self, m) ==
  BindTo(IF param.type = "AssignmentExpression" THEN param.left ELSE param,
         i, actx, self,
         IF param.type = "AssignmentExpression" /\ IsUndefined(ArgAt(arrowArgs, i))
         THEN DefaultArg(arrowArgs, i, Eval(param.right, KId, self, m))
         ELSE Ok(m, Arr(arrowArgs)))

\* node.params.forEach(...); r carries arrowArgs
BindParams(params, i, actx, self, r) ==
  IF r.c = "throw" \/ i > Len(params) THEN r
  ELSE BindParams(params, i + 1, actx, self,
                  BindParam(params[i], i, r.v.a, actx, self, r.m))

\* return arrowContext
arrowContextOf(node, arrowContext, r) ==
  IF r.c = "throw" THEN r
  ELSE Ok(Log(r.m, "arrowContext", node.id, "", arrowContext), arrowContext)

\* evalArrowContext binding into this.context itself instead of a copy
evalArrowContextShared(node, arrowArgs, self, m) ==
  arrowContextOf(node, self.context,
    BindParams(node.params, 1, self.context, self, Ok(m, Arr(arrowArgs))))

\* evalArrowContext(node, arrowArgs)
evalArrowContext(node, arrowArgs, self, m) ==
  arrowContextOf(node, Obj(NewId(m)),
    BindParams(node.params, 1, Obj(NewId(m)), self,
               Ok(Alloc(m, IF self.context.t = "obj" THEN m.heap[self.context.id]
                           ELSE EmptyObject),
                  Arr(arrowArgs))))

\* ExpressionEval[node.async ? 'evalAsync' : 'eval'](node.body, arrowContext)
evalArrowBody(node, arrowContext) ==
  IF arrowContext.c = "throw" THEN arrowContext
  ELSE IF Truthy(node.async)
  THEN StaticEvalAsync(node.body, arrowContext.v, UNDEF, arrowContext.m)
  ELSE StaticEval(node.body, arrowContext.v, UNDEF, arrowContext.m)

\* fn.apply(thisArg, args): a closure made by evalArrowFunctionExpression, or
\* a function of the host
CallFunction(fn, thisArg, args, id, m) ==
  IF fn.t = "clo"
  THEN evalArrowBody(fn.node, evalArrowContext(fn.node, args, fn.self, m))
  ELSE CASE fn.f = "one" -> Ok(m, Num(1))
         [] fn.f = "first" -> Ok(m, ArgAt(args, 1))
         [] OTHER -> Ok(m, UNDEF)

(***************************************************************************)
(* The callbacks                                                           *)
(***************************************************************************)
\* left => left || this.eval(node.right)
orCallback(node, left, self, m) ==
  IF Truthy(left) THEN Ok(m, left) ELSE Eval(node.right, KId, self, m)

\* && evaluating its right operand before it looks at the left one
andCallbackEager(node, left, self, m) ==
  IF Truthy(left) THEN Eval(node.right, KId, self, m)
  ELSE Ok(Eval(node.right, KId, self, m).m, left)

\* left => left && this.eval(node.right)
andCallback(node, left, self, m) ==
  IF Truthy(left) THEN Eval(node.right, KId, self, m) ELSE Ok(m, left)

callback(k, v, self, m) ==
  CASE k.k = "id" -> Ok(m, v)
    [] k.k = "setValue" ->
         Apply(k.cb, v, self, Log(SetValue(m, k.node, v), "value", k.node.id, "", v))
    [] k.k = "or" -> orCallback(k.node, v, self, m)
    [] k.k = "and" -> andCallback(k.node, v, self, m)
    [] k.k = "binop" -> Ok(m, binops(k.node.operator, v.a[1], v.a[2]))
    [] k.k = "cond" ->
         IF Truthy(v) THEN Eval(k.node.consequent, KId, self, m)
         ELSE Eval(k.node.alternate, KId, self, m)
    [] k.k = "unary" -> Ok(m, unops(k.node.operator, v))
    [] k.k = "memberKey" ->
         evalSyncAsync(IF k.node.computed THEN Eval(k.node.property, KId, self, m)
                       ELSE Ok(m, Str(k.node.property.name)),
                       KMemberGet(k.node, v), self)
    [] k.k = "memberGet" ->
         LET m1 == Log(m, "key", k.node.id, KeyString(v), k.object)
             value == IF k.node.optional /\ ~Truthy(k.object)
                      THEN Ok(Log(m1, "get", k.node.id, KeyString(v), UNDEF), UNDEF)
                      ELSE GetValue(m1, k.node.id, k.object, v, self.options)
         IN IF BlockedKey(KeyString(v))
            THEN Throw(m1, k.node.id, "AccessDenied", KeyString(v))
            ELSE IF value.c = "throw" THEN value
            ELSE Ok(value.m, Arr(<<k.object, value.v, v>>))
    [] k.k = "memberVal" -> Ok(m, v.a[2])
    [] k.k = "validateMember" ->
         validateFnAndCall(v.a[2], v.a[1], NodeRef(k.node), k.node.id, m)
    [] k.k = "validate" ->
         validateFnAndCall(v, NodeRef(k.node), UNDEF, k.node.id, m)
    [] k.k = "callFn" ->
         evalSyncAsync(evalArray(k.node.arguments, self, m),
                       KCallApply(k.node, v.a[1], v.a[2]), self)
    [] k.k = "callApply" ->
         CallFunction(k.fn,
                      IF k.caller = NodeRef(k.node.callee) THEN self.context
                      ELSE k.caller,
                      v.a, k.node.id, Log(m, "call", k.node.id, "", k.fn))
    [] k.k = "assignTarget" ->
         Eval(k.node.right, KAssignOp(k.node, v.a[1], KeyString(v.a[2])), self, m)
    [] k.k = "assignOp" ->
         assignOps(k.node.operator, k.destObj, k.destKey, v, k.node.id, m)
    [] k.k = "updateOp" ->
         evalUpdateOperation(k.node, v.a[1], KeyString(v.a[2]), m)
    [] k.k = "ctxKeyMember" ->
         LET keyValue == GetKeyValue(m.heap, v.a[1], KeyString(v.a[3]), self.options)
         IN Ok(m, Arr(<<v.a[1], Str(keyValue.key)>>))
    [] k.k = "ctxKeyCond" ->
         getContextAndKey(IF Truthy(v) THEN k.node.consequent ELSE k.node.alternate,
                          self, m)
    [] k.k = "propKey" ->
         Eval(IF k.node.shorthand THEN k.node.key ELSE k.node.value,
              KPropSet(k.node, k.obj, KeyString(v)), self, m)
    [] k.k = "propSet" ->
         Ok(Log(Store(m, k.obj, k.key, v), "set", k.node.id, k.key, v), UNDEF)
    [] k.k = "objDone" -> Ok(m, k.obj)
    [] k.k = "toFullArray" ->
         LET r == toFullArray(k.list, v.a, 1, <<>>)
         IN IF r.c = "throw" THEN Throw(m, 0, "TypeError", "spread") ELSE Ok(m, r.v)
    [] k.k = "newCtor" ->
         evalSyncAsync(evalArray(k.node.arguments, self, m),
                       KConstruct(k.node, v.a[1]), self)
    [] k.k = "construct" -> construct(k.ctor, v.a, k.node, m)
    [] OTHER -> Ok(m, v)

\* every call of eval and of a callback
Trampoline(c) ==
  IF c.op = "eval" THEN eval(c.node, c.k, c.self, c.m)
  ELSE callback(c.k, c.v, c.self, c.m)

(***************************************************************************)
(* The job queue of the host                                               *)
(***************************************************************************)
\* an element of Promise.all(P) was fulfilled with v
AllFulfilled(m, P, idx, v) ==
  LET vals == [m.proms[P].vals EXCEPT ![idx] = v]
      m1 == [m EXCEPT !.proms[P].vals = vals, !.proms[P].cnt = @ - 1]
  IN IF m1.proms[P].cnt = 0 THEN Resolve(m1, P, Arr(vals)) ELSE m1

\* one promise job
RunJob(job, m) ==
  IF job.kind = "thenable" THEN AddReaction(m, job.q, AdoptReaction(job.d))
  ELSE IF job.st = "err" THEN Settle(m, job.r.d, "err", job.v)
  ELSE IF job.r.kind = "then"
  THEN Resolved(Apply(job.r.k, job.v, job.r.self, m), job.r.d)
  ELSE IF job.r.kind = "adopt" THEN Resolve(m, job.r.d, job.v)
  ELSE AllFulfilled(m, job.r.d, job.r.idx, job.v)

\* run the queued jobs, first in first out, until none is left
RECURSIVE Drain(_)
Drain(m) ==
  IF m.queue = <<>> THEN m
  ELSE Drain(RunJob(Head(m.queue), [m EXCEPT !.queue = Tail(@)]))

(***************************************************************************)
(* The expressions the callers evaluate, as the parser produces them.      *)
(***************************************************************************)
\* o.constructor, o["__proto__"], g?.prototype (g is not defined)
PMemberCtor == Member(101, Ident(102, "o"), Ident(103, "constructor"), FALSE, FALSE)
PMemberProto == Member(111, Ident(112, "o"), Lit(113, Str("__proto__")), TRUE, FALSE)
PMemberPrototype == Member(121, Ident(122, "g"), Ident(123, "prototype"), FALSE, TRUE)
\* o.constructor(), o.constructor = 1, ++o["prototype"]
PCallCtor ==
  Call(131, Member(132, Ident(133, "o"), Ident(134, "constructor"), FALSE, FALSE),
       <<>>, FALSE)
PAssignCtor ==
  Assign(141, "=", Member(142, Ident(143, "o"), Ident(144, "constructor"), FALSE, FALSE),
         Lit(145, Num(1)))
PUpdateProto ==
  Update(151, "++", TRUE,
         Member(152, Ident(153, "o"), Lit(154, Str("prototype")), TRUE, FALSE))
\* o.x, o.bar, g?.x
PMemberX == Member(161, Ident(162, "o"), Ident(163, "x"), FALSE, FALSE)
PMemberBar == Member(171, Ident(172, "o"), Ident(173, "bar"), FALSE, FALSE)
PMemberMissing == Member(181, Ident(182, "g"), Ident(183, "x"), FALSE, TRUE)
\* foo, THIS, TRUE
PIdFoo == Ident(191, "foo")
PIdThis == Ident(201, "THIS")
PIdTrue == Ident(211, "TRUE")
\* foo = 2, k = 2, o.bar = 3, THIS = 2, foo++
PAssignFoo == Assign(221, "=", Ident(222, "foo"), Lit(223, Num(2)))
PAssignNew == Assign(231, "=", Ident(232, "k"), Lit(233, Num(2)))
PAssignBar ==
  Assign(241, "=", Member(242, Ident(243, "o"), Ident(244, "bar"), FALSE, FALSE),
         Lit(245, Num(3)))
PAssignThis == Assign(251, "=", Ident(252, "THIS"), Lit(253, Num(2)))
PUpdateFoo == Update(261, "++", FALSE, Ident(262, "foo"))
\* ++x, x++, --x, x--, o.x++, --o.x
PPreInc == Update(271, "++", TRUE, Ident(272, "x"))
PPostInc == Update(281, "++", FALSE, Ident(282, "x"))
PPreDec == Update(291, "--", TRUE, Ident(292, "x"))
PPostDec == Update(301, "--", FALSE, Ident(302, "x"))
PMemberInc ==
  Update(311, "++", FALSE, Member(312, Ident(313, "o"), Ident(314, "x"), FALSE, FALSE))
PMemberDec ==
  Update(321, "--", TRUE, Member(322, Ident(323, "o"), Ident(324, "x"), FALSE, FALSE))
\* x && (y = 1), x || (y = 1), (x = 0) && (y = 1), x++ || y++
PAnd ==
  Binary(331, "&&", Ident(332, "x"), Assign(333, "=", Ident(334, "y"), Lit(335, Num(1))))
POr ==
  Binary(341, "||", Ident(342, "x"), Assign(343, "=", Ident(344, "y"), Lit(345, Num(1))))
PAndAssign ==
  Binary(351, "&&", Assign(352, "=", Ident(353, "x"), Lit(354, Num(0))),
         Assign(355, "=", Ident(356, "y"), Lit(357, Num(1))))
POrUpdate ==
  Binary(361, "||", Update(362, "++", FALSE, Ident(363, "x")),
         Update(364, "++", FALSE, Ident(365, "y")))
\* x++ + x, (x = 1) + x, x + 1
PIncPlus == Binary(371, "+", Update(372, "++", FALSE, Ident(373, "x")), Ident(374, "x"))
PAssignPlus ==
  Binary(381, "+", Assign(382, "=", Ident(383, "x"), Lit(384, Num(1))), Ident(385, "x"))
PPlus == Binary(391, "+", Ident(392, "x"), Lit(393, Num(1)))
\* {a: 1, ...s}, {...s, a: 1}, {a: x, b: o.x}
PObjThenSpread ==
  ObjectE(401, <<Prop(402, Ident(403, "a"), Lit(404, Num(1)), FALSE),
                 Spread(405, Ident(406, "s"))>>)
PSpreadThenObj ==
  ObjectE(411, <<Spread(412, Ident(413, "s")),
                 Prop(414, Ident(415, "a"), Lit(416, Num(1)), FALSE)>>)
PObj ==
  ObjectE(421, <<Prop(422, Ident(423, "a"), Ident(424, "x"), FALSE),
                 Prop(425, Ident(426, "b"),
                      Member(427, Ident(428, "o"), Ident(429, "x"), FALSE, FALSE),
                      FALSE)>>)
\* f(x), g?.(), g(), o.g?.(), o?.g(), o.m(), (x ? g : g)?.(), x?.(), o?.zero()
PCall == Call(431, Ident(432, "f"), <<Ident(433, "x")>>, FALSE)
PCallOptId == Call(441, Ident(442, "g"), <<>>, TRUE)
PCallId == Call(451, Ident(452, "g"), <<>>, FALSE)
PCallOptMember ==
  Call(461, Member(462, Ident(463, "o"), Ident(464, "g"), FALSE, FALSE), <<>>, TRUE)
PCallMemberOpt ==
  Call(471, Member(472, Ident(473, "o"), Ident(474, "g"), FALSE, TRUE), <<>>, FALSE)
PCallMember ==
  Call(481, Member(482, Ident(483, "o"), Ident(484, "m"), FALSE, FALSE), <<>>, FALSE)
PCallOptOther ==
  Call(491, Cond(492, Ident(493, "x"), Ident(494, "g"), Ident(495, "g")), <<>>, TRUE)
PCallOptNumber == Call(501, Ident(502, "x"), <<>>, TRUE)
PCallMemberZero ==
  Call(511, Member(512, Ident(513, "o"), Ident(514, "zero"), FALSE, TRUE), <<>>, FALSE)
\* (([a, b = 2], {c, ...rest}) => a)(arr, arg)
PDestructure ==
  Call(521,
       Arrow(522,
             <<ArrayE(523, <<Ident(524, "a"),
                             Assign(525, "=", Ident(526, "b"), Lit(527, Num(2)))>>),
               ObjectE(528, <<Prop(529, Ident(530, "c"), Ident(531, "c"), TRUE),
                              Spread(532, Ident(533, "rest"))>>)>>,
             Ident(534, "a"), UNDEF),
       <<Ident(535, "arr"), Ident(536, "arg")>>, FALSE)
\* ((p, ...r) => r)(1, 2, 3)
PRest ==
  Call(541,
       Arrow(542, <<Ident(543, "p"), Spread(544, Ident(545, "r"))>>,
             Ident(546, "r"), UNDEF),
       <<Lit(547, Num(1)), Lit(548, Num(2)), Lit(549, Num(3))>>, FALSE)
\* ((p = 5, {d = 6, e = 7}) => p)(undefined, arg)
PDefaults ==
  Call(551,
       Arrow(552,
             <<Assign(553, "=", Ident(554, "p"), Lit(555, Num(5))),
               ObjectE(556, <<Assign(557, "=", Ident(558, "d"), Lit(559, Num(6))),
                              Assign(560, "=", Ident(561, "e"), Lit(562, Num(7)))>>)>>,
             Ident(563, "p"), UNDEF),
       <<Ident(564, "g"), Ident(565, "arg")>>, FALSE)
\* (x ? y : x) = 3
PAssignCond ==
  Assign(571, "=", Cond(572, Ident(573, "x"), Ident(574, "y"), Ident(575, "x")),
         Lit(576, Num(3)))
\* () => 1, async () => 1, and () => 1 with async: false
PArrow == Arrow(611, <<>>, Lit(612, Num(1)), UNDEF)
PArrowAsync == Arrow(621, <<>>, Lit(622, Num(1)), Bool(TRUE))
PArrowNotAsync == Arrow(631, <<>>, Lit(632, Num(1)), Bool(FALSE))
\* the same three, called
PCallArrow == Call(641, Arrow(642, <<>>, Lit(643, Num(1)), UNDEF), <<>>, FALSE)
PCallArrowAsync ==
  Call(651, Arrow(652, <<>>, Lit(653, Num(1)), Bool(TRUE)), <<>>, FALSE)
PCallArrowNotAsync ==
  Call(661, Arrow(662, <<>>, Lit(663, Num(1)), Bool(FALSE)), <<>>, FALSE)
\* new Box(1), new x(), new g(), new f(), new o.m(), new o?.zero()
PNewBox == New(671, Ident(672, "Box"), <<Lit(673, Num(1))>>)
PNewNumber == New(681, Ident(682, "x"), <<>>)
PNewMissing == New(691, Ident(692, "g"), <<>>)
PNewFunction == New(701, Ident(702, "f"), <<>>)
PNewMember ==
  New(711, Member(712, Ident(713, "o"), Ident(714, "m"), FALSE, FALSE), <<>>)
PNewOptMember ==
  New(721, Member(722, Ident(723, "o"), Ident(724, "zero"), FALSE, TRUE), <<>>)
\* await foo, (() => foo)()
PAwaitFoo == Await(731, Ident(732, "foo"))
PCallArrowFoo == Call(741, Arrow(742, <<>>, Ident(743, "foo"), UNDEF), <<>>, FALSE)
\* a node of a plugin's kind, alone and as an operand
PPlugin == PluginNode(581)
PPluginPlus == Binary(591, "+", Lit(592, Num(1)), PluginNode(593))

Programs ==
  <<PMemberCtor, PMemberProto, PMemberPrototype, PCallCtor, PAssignCtor,
    PUpdateProto, PMemberX, PMemberBar, PMemberMissing, PIdFoo, PIdThis, PIdTrue,
    PAssignFoo, PAssignNew, PAssignBar, PAssignThis, PUpdateFoo, PPreInc, PPostInc,
    PPreDec, PPostDec, PMemberInc, PMemberDec, PAnd, POr, PAndAssign, POrUpdate,
    PIncPlus, PAssignPlus, PPlus, PObjThenSpread, PSpreadThenObj, PObj, PCall,
    PCallOptId, PCallId, PCallOptMember, PCallMemberOpt, PCallMember,
    PCallOptOther, PCallOptNumber, PCallMemberZero, PDestructure, PRest,
    PDefaults, PAssignCond, PPlugin, PPluginPlus, PArrow, PArrowAsync,
    PArrowNotAsync, PCallArrow, PCallArrowAsync, PCallArrowNotAsync, PNewBox,
    PNewNumber, PNewMissing, PNewFunction, PNewMember, PNewOptMember, PAwaitFoo,
    PCallArrowFoo>>

\* the expressions of the registration scenarios
DispatchPrograms == <<Lit(601, Num(1)), PPlugin, PPluginPlus, PPlus>>

(***************************************************************************)
(* Bounds                                                                  *)
(***************************************************************************)
\* the context's x starts in 0..MaxNum
MaxNum == 1
\* a caller evaluates the same AST at most MaxPasses times in a row
MaxPasses == 2
\* at most MaxRegs evaluator registrations are made
MaxRegs == 2

(***************************************************************************)
(* The initial state: the library as loaded, and a caller's context.       *)
(***************************************************************************)
\* static evaluators
BuiltinEvaluators ==
  [ArrayExpression |-> "evalArrayExpression",
   LogicalExpression |-> "evalBinaryExpression",
   BinaryExpression |-> "evalBinaryExpression",
   CallExpression |-> "evalCallExpression",
   ConditionalExpression |-> "evalConditionalExpression",
   Identifier |-> "evalIdentifier",
   Literal |-> "evalLiteral",
   OptionalMemberExpression |-> "evalMemberExpression",
   MemberExpression |-> "evalMemberExpression",
   ThisExpression |-> "evalThisExpression",
   UnaryExpression |-> "evalUnaryExpression",
   ArrowFunctionExpression |-> "evalArrowFunctionExpression",
   AssignmentExpression |-> "evalAssignmentExpression",
   UpdateExpression |-> "evalUpdateExpression",
   AwaitExpression |-> "evalAwaitExpression",
   NewExpression |-> "evalNewExpression",
   ObjectExpression |-> "evalObjectExpression",
   SpreadElement |-> "evalSpreadElement"]

\* the context object of the caller, and the objects it refers to
Context(x0) ==
  [x |-> Num(x0), y |-> Num(0), Foo |-> Num(1), This |-> Num(9), o |-> Obj(2),
   s |-> Obj(3), f |-> Native("first"), arr |-> Arr(<<Num(1)>>), arg |-> Obj(4),
   Box |-> Native("Box")]

InitialHeap(x0) ==
  <<Context(x0),
    [x |-> Num(5), Bar |-> Num(7), m |-> Native("one"), zero |-> Num(0)],
    [a |-> Num(2)],
    [c |-> Num(3), d |-> Num(4)]>>

NoCall == [called |-> FALSE]

Init ==
  /\ evaluators = BuiltinEvaluators
  /\ conditionalEvaluators = [k \in {} |-> <<>>]
  /\ defaultOptions = Options(Bool(TRUE))
  /\ \E x0 \in 0..MaxNum : heap = InitialHeap(x0)
  /\ ann = [i \in {} |-> UNDEF]
  /\ last = NoCall
  /\ prev = NoCall
  /\ calls = 0
  /\ registered = <<>>

(***************************************************************************)
(* The operations                                                          *)
(***************************************************************************)
StartMachine(h, a) ==
  [heap |-> h, ann |-> a, log |-> <<>>, proms |-> <<>>, queue |-> <<>>]

\* the host runs the jobs the call left queued
Drained(r) == [m |-> Drain(r.m), c |-> r.c, v |-> r.v]

\* evaluate(ast, context, options) against the objects h
RunSync(ast, options, h, a) ==
  Drained(StaticEval(ast, Obj(1), options, StartMachine(h, a)))

\* what the promise of the drained call d settled to
Settlement(d) ==
  [m |-> d.m,
   c |-> IF d.m.proms[d.v.p].st = "ok" THEN "ok"
         ELSE IF d.m.proms[d.v.p].st = "err" THEN "throw" ELSE "pending",
   v |-> d.m.proms[d.v.p].v]

\* evaluateAsync(ast, context, options), run until its promise settles
RunAsync(ast, options, h, a) ==
  Settlement(Drained(StaticEvalAsync(ast, Obj(1), options, StartMachine(h, a))))

Run(ast, async, options, h, a) ==
  IF async THEN RunAsync(ast, options, h, a) ELSE RunSync(ast, options, h, a)

CallerOptions ==
  {UNDEF, Options(Bool(TRUE)), Options(Bool(FALSE)), Options(UNDEF)}

\* the call returned r: the caller's objects are as the call left them
Returned(ast, async, options, r) ==
  /\ heap' = r.m.heap
  /\ ann' = r.m.ann
  /\ last' = [called |-> TRUE, ast |-> ast, async |-> async, options |-> options,
              defaults |-> defaultOptions, heap0 |-> heap, ann0 |-> ann,
              c |-> r.c, v |-> r.v, log |-> r.m.log, proms |-> r.m.proms]
  /\ prev' = last
  /\ calls' = calls + 1
  /\ UNCHANGED <<evaluators, conditionalEvaluators, defaultOptions, registered>>

Called(ast, async, options) ==
  Returned(ast, async, options, Run(ast, async, options, heap, ann))

\* a caller evaluates an expression synchronously
Evaluate ==
  /\ calls = 0
  /\ \E i \in 1..Len(Programs), options \in CallerOptions :
       Called(Programs[i], FALSE, options)

\* a caller evaluates an expression asynchronously
EvaluateAsync ==
  /\ calls = 0
  /\ \E i \in 1..Len(Programs), options \in CallerOptions :
       Called(Programs[i], TRUE, options)

\* the caller evaluates the same AST again, against the same context object
\* and with the same arguments
Reevaluate ==
  /\ calls > 0
  /\ calls < MaxPasses
  /\ Called(last.ast, last.async, last.options)

\* addOptions(options)
addOptions ==
  /\ \E options \in CallerOptions \ {UNDEF} : defaultOptions' = options
  /\ UNCHANGED <<evaluators, conditionalEvaluators, heap, ann, last, prev, calls,
                 registered>>

Next == Evaluate \/ EvaluateAsync \/ Reevaluate \/ addOptions

Spec == Init /\ [][Next]_vars

(***************************************************************************)
(* Registration scenarios: evaluator registrations, then an evaluation.    *)
(***************************************************************************)
NodeTypes == {"Literal", "PluginNode"}

\* addEvaluator(nodeType, evaluator)
addEvaluator ==
  /\ calls = 0
  /\ Len(registered) < MaxRegs
  /\ \E nodeType \in NodeTypes, evaluator \in {"custom1", "custom2"} :
       /\ evaluators' = [k \in DOMAIN evaluators \cup {nodeType} |->
                           IF k = nodeType THEN evaluator ELSE evaluators[k]]
       /\ registered' = Append(registered,
                               [nodeType |-> nodeType, predicate |-> "",
                                evaluator |-> evaluator])
  /\ UNCHANGED <<conditionalEvaluators, defaultOptions, heap, ann, last, prev, calls>>

\* addConditionalEvaluator(nodeType, predicate, evaluator)
addConditionalEvaluator ==
  /\ calls = 0
  /\ Len(registered) < MaxRegs
  /\ \E nodeType \in NodeTypes, p \in {"always", "never", "xTruthy"},
        evaluator \in {"custom3", "custom4"} :
       /\ conditionalEvaluators' =
            [k \in DOMAIN conditionalEvaluators \cup {nodeType} |->
               IF k = nodeType
               THEN Append(IF k \in DOMAIN conditionalEvaluators
                           THEN conditionalEvaluators[k] ELSE <<>>,
                           [evaluator |-> evaluator, predicate |-> p])
               ELSE conditionalEvaluators[k]]
       /\ registered' = Append(registered,
                               [nodeType |-> nodeType, predicate |-> p,
                                evaluator |-> evaluator])
  /\ UNCHANGED <<evaluators, defaultOptions, heap, ann, last, prev, calls>>

EvaluateRegistered ==
  /\ calls = 0
  /\ \E i \in 1..Len(DispatchPrograms), async \in BOOLEAN :
       Called(DispatchPrograms[i], async, UNDEF)

NextRegistered == addEvaluator \/ addConditionalEvaluator \/ EvaluateRegistered

SpecRegistered == Init /\ [][NextRegistered]_vars

(***************************************************************************)
(* Properties.  They read the record of the latest call (last), of the one *)
(* before it (prev), and the caller's objects as the calls left them.      *)
(***************************************************************************)
\* the options in effect for a call: those passed, else the process-wide
\* default of the time
OptionsInEffect(call) ==
  IF Truthy(call.options) THEN call.options ELSE call.defaults

\* the caller's own objects: the context and the objects it refers to
CallerObjects(h) == SubSeq(h, 1, Len(InitialHeap(0)))

\* a value as the caller sees it: an object by its contents
Shown(v, h) == IF v.t = "obj" THEN [t |-> "object", fields |-> h[v.id]] ELSE v

\* what a call came to: how it completed, with what, and the caller's objects
Outcome(c, v, h) == [c |-> c, v |-> Shown(v, h), objects |-> CallerObjects(h)]

OutcomeOf(r) == Outcome(r.c, r.v, r.m.heap)

BlockedNames == {"__proto__", "prototype", "constructor"}

\* C1: once a member node's object has evaluated and the property name is
\* __proto__, prototype or constructor, the evaluation fails with the
\* Access-Denied error naming it and nothing is read from the object for that
\* node: in both modes, under every options setting, and also for a callee
\* or an assignment or update target.
C1_AccessDenied ==
  last.called =>
    \A i \in 1..Len(last.log) :
      (last.log[i].ev = "key" /\ last.log[i].key \in BlockedNames) =>
        /\ last.c = "throw"
        /\ last.v = Err("AccessDenied", last.log[i].key)
        /\ \A j \in 1..Len(last.log) :
             ~(last.log[j].ev = "get" /\ last.log[j].id = last.log[i].id)

C1_Witness ==
  /\ last.called
  /\ last.async
  /\ last.ast = PAssignCtor
  /\ last.options = Options(Bool(FALSE))
  /\ \E i \in 1..Len(last.log) :
       last.log[i].ev = "key" /\ last.log[i].key = "constructor"
  /\ last.v = Err("AccessDenied", "constructor")

\* C2: for the same expression, context, options and registries the
\* synchronous entry point and the asynchronous one complete alike, with the
\* same value, and leave the caller's objects in the same state.
C2_SyncAsyncEquivalent ==
  (last.called /\ last.defaults = defaultOptions) =>
    OutcomeOf(Run(last.ast, ~last.async, last.options, last.heap0, last.ann0))
      = Outcome(last.c, last.v, heap)

\* the conditional evaluators registered for kind K, in registration order
RECURSIVE ConditionalFor(_, _)
ConditionalFor(regs, K) ==
  IF regs = <<>> THEN <<>>
  ELSE IF Head(regs).nodeType = K /\ Head(regs).predicate # ""
       THEN <<Head(regs)>> \o ConditionalFor(Tail(regs), K)
       ELSE ConditionalFor(Tail(regs), K)

\* the unconditional evaluator for kind K: the most recently registered one,
\* else the built-in one, else none
UnconditionalFor(regs, K) ==
  LET is == {i \in 1..Len(regs) : regs[i].nodeType = K /\ regs[i].predicate = ""}
  IN IF is # {} THEN regs[CHOOSE i \in is : \A j \in is : j <= i].evaluator
     ELSE IF K \in DOMAIN BuiltinEvaluators THEN BuiltinEvaluators[K]
     ELSE "undefined"

\* eval settled on an evaluator for a node, or found none
IsDispatch(e) == e.ev = "evaluator" \/ (e.ev = "throw" /\ e.key = "UnknownNodeKind")

IsPredicateOf(e, id) == e.ev = "predicate" /\ e.id = id

\* how many predicates were called for the node of event i, right before it
PredicatesBefore(log, i) ==
  CHOOSE n \in 0..(i - 1) :
    /\ \A q \in 1..n : IsPredicateOf(log[i - q], log[i].id)
    /\ n = i - 1 \/ ~IsPredicateOf(log[i - n - 1], log[i].id)

\* the n predicates called before event i are the first n registered for the
\* kind, all but the last returned false, and the evaluator is the n-th's when
\* that returned true, else the unconditional one after all were tried
DispatchedInOrder(log, i, conds, n, unconditional) ==
  /\ n <= Len(conds)
  /\ \A q \in 1..n : log[i - n + q - 1].key = conds[q].predicate
  /\ \A q \in 1..(n - 1) : log[i - n + q - 1].v = Bool(FALSE)
  /\ IF n > 0 /\ log[i - 1].v = Bool(TRUE)
     THEN log[i].ev = "evaluator" /\ log[i].key = conds[n].evaluator
     ELSE /\ n = Len(conds)
          /\ IF unconditional = "undefined" THEN log[i].ev = "throw"
             ELSE log[i].ev = "evaluator" /\ log[i].key = unconditional

\* C3: after any registrations, a node of kind K is evaluated by the
\* earliest-registered conditional evaluator for K whose predicate returns
\* true, else by the most recently registered unconditional evaluator for K
\* (the built-in one when none was registered), else the evaluation fails
\* with the Unknown-Node-Kind error; one evaluator is invoked per evaluation
\* of the node and no predicate after the first that matched is called.
C3_DispatchOrder ==
  last.called =>
    \A i \in 1..Len(last.log) :
      /\ IsDispatch(last.log[i]) =>
           /\ DispatchedInOrder(last.log, i,
                                ConditionalFor(registered, last.log[i].v.s),
                                PredicatesBefore(last.log, i),
                                UnconditionalFor(registered, last.log[i].v.s))
           /\ \A j \in 1..Len(last.log) :
                (IsDispatch(last.log[j]) /\ last.log[j].id = last.log[i].id) => j = i
      /\ last.log[i].ev = "predicate" =>
           /\ i < Len(last.log)
           /\ last.log[i + 1].id = last.log[i].id
           /\ IsDispatch(last.log[i + 1]) \/ last.log[i + 1].ev = "predicate"

C3_Witness ==
  /\ last.called
  /\ Len(registered) = MaxRegs
  /\ Len(ConditionalFor(registered, "PluginNode")) >= 2
  /\ \E i \in 1..Len(last.log) :
       /\ last.log[i].ev = "evaluator"
       /\ last.log[i].v = Str("PluginNode")
       /\ PredicatesBefore(last.log, i) = 2
       /\ last.log[i - 2].v = Bool(FALSE)
       /\ last.log[i - 1].v = Bool(TRUE)
       /\ last.log[i].key = registered[Len(registered)].evaluator

\* the operator stops at the left operand's value
ShortCircuited(op, left) ==
  (op = "&&" /\ ~Truthy(left)) \/ (op = "||" /\ Truthy(left))

\* Node ids follow the source order, so the events of a node's right operand
\* carry the ids from the operand's own on, and those of the left operand the
\* ids between the node's and the right operand's.  Event i gives the left
\* operand's value.
RightOperandInTurn(call, log, i) ==
  IF ShortCircuited(call.ast.operator, log[i].v)
  THEN /\ \A j \in 1..Len(log) : log[j].id < call.ast.right.id
       /\ call.c = "ok"
       /\ call.v = log[i].v
  ELSE /\ \E j \in 1..Len(log) : log[j].id >= call.ast.right.id
       /\ \A j \in 1..Len(log) :
            log[j].id >= call.ast.right.id =>
              /\ j > i
              /\ \A q \in 1..Len(log) :
                   (log[q].id > call.ast.id /\ log[q].id < call.ast.right.id) => q < j

\* C4: in both modes, when the left operand of && is falsy, or that of ||
\* truthy, nothing of the right operand is evaluated, none of its writes
\* happens and the result is the left operand's value; otherwise the right
\* operand is evaluated, and only after the left operand has completed.
C4_ShortCircuit ==
  (last.called /\ last.ast.type = "BinaryExpression"
     /\ last.ast.operator \in {"&&", "||"}) =>
    /\ \A i \in 1..Len(last.log) :
         (last.log[i].ev = "value" /\ last.log[i].id = last.ast.left.id) =>
           RightOperandInTurn(last, last.log, i)
    /\ (\A j \in 1..Len(last.log) : last.log[j].id < last.ast.right.id) =>
         heap[1]["y"] = last.heap0[1]["y"]

C4_Witness ==
  /\ last.called
  /\ last.async
  /\ last.ast = PAndAssign
  /\ last.c = "ok"
  /\ last.v = Num(0)
  /\ heap[1]["x"] = Num(0)
  /\ heap[1]["y"] = Num(0)
  /\ last.heap0[1]["x"] = Num(1)

\* C5: a call whose resolved callee value is not callable evaluates to absence
\* when the call node is marked optional and the value is nullish, whatever
\* the kind of the callee node; otherwise it fails with the Not-Callable
\* error.
C5_OptionalCall ==
  (last.called /\ last.ast.type = "CallExpression") =>
    \A i \in 1..Len(last.log) :
      (/\ last.log[i].ev = "callee"
       /\ last.log[i].id = last.ast.callee.id
       /\ ~IsFunction(last.log[i].v)) =>
        IF last.ast.optional /\ Nullish(last.log[i].v)
        THEN last.c = "ok" /\ last.v = UNDEF
        ELSE last.c = "throw" /\ last.v.e = "NotCallable"

\* the slot an update or assignment target names, when it is an identifier or
\* a member of one of the context's objects
IsSlot(t, h) ==
  \/ t.type = "Identifier"
  \/ /\ t.type = "MemberExpression"
     /\ ~t.computed
     /\ t.object.type = "Identifier"
     /\ t.object.name \in DOMAIN h[1]
     /\ h[1][t.object.name].t = "obj"
     /\ t.property.name \notin BlockedNames

SlotObject(t, h) ==
  IF t.type = "Identifier" THEN 1 ELSE h[1][t.object.name].id

SlotName(t) == IF t.type = "Identifier" THEN t.name ELSE t.property.name

\* the update returned and stored as its operator and prefix flag say, and
\* touched nothing else
Updated(call, h, obj, key, n, d) ==
  /\ call.c = "ok"
  /\ call.v = Num(IF call.ast.prefix THEN n + d ELSE n)
  /\ CallerObjects(h) =
       [CallerObjects(call.heap0) EXCEPT ![obj] = [@ EXCEPT ![key] = Num(n + d)]]

\* C6: an update of a slot holding the number n returns n+1 (prefix ++), n
\* (postfix), n-1 (prefix --), and leaves the slot at n+1 for ++ and n-1 for
\* --, and every other slot of the caller's objects as it was, in both modes.
C6_UpdateSemantics ==
  (/\ last.called
   /\ last.ast.type = "UpdateExpression"
   /\ IsSlot(last.ast.argument, last.heap0)
   /\ SlotName(last.ast.argument)
        \in DOMAIN last.heap0[SlotObject(last.ast.argument, last.heap0)]
   /\ last.heap0[SlotObject(last.ast.argument, last.heap0)]
                [SlotName(last.ast.argument)].t = "num") =>
    Updated(last, heap, SlotObject(last.ast.argument, last.heap0),
            SlotName(last.ast.argument),
            last.heap0[SlotObject(last.ast.argument, last.heap0)]
                      [SlotName(last.ast.argument)].n,
            IF last.ast.operator = "++" THEN 1 ELSE -1)

C6_Witness ==
  /\ last.called
  /\ last.async
  /\ last.ast = PPostDec
  /\ last.heap0[1]["x"] = Num(1)
  /\ last.v = Num(1)
  /\ heap[1]["x"] = Num(0)

\* case-insensitivity was requested for the call
Insensitive(call) == OptionsInEffect(call).caseSensitive = Bool(FALSE)

\* the keys of object o that differ from name in letter case only; none when
\* name itself is a key
Matches(o, name) ==
  IF name \in DOMAIN o THEN {} ELSE {k \in DOMAIN o : SameBase(k, name)}

\* name is no key of o, whatever the letter case
Unmatched(o, name) == \A k \in DOMAIN o : ~SameBase(k, name)

\* the names an identifier read resolves without looking at the context
Reserved(name) ==
  SameBase(name, "this") \/ \E w \in DOMAIN literals : SameBase(name, w)

\* a read of slot t resolves to the value of a key of the container that
\* matches its name
ReadsMatch(call, t) ==
  /\ call.c = "ok"
  /\ \E k \in Matches(call.heap0[SlotObject(t, call.heap0)], SlotName(t)) :
       call.v = call.heap0[SlotObject(t, call.heap0)][k]

\* a write of value v through slot t went to the matching key of the
\* container and left its set of keys as it was, or, when no key matches,
\* created a slot under the name as written
WritesMatch(call, h, t, v) ==
  LET obj == SlotObject(t, call.heap0)
      ks == Matches(call.heap0[obj], SlotName(t))
  IN /\ ks # {} =>
          /\ DOMAIN h[obj] = DOMAIN call.heap0[obj]
          /\ \E k \in ks : h[obj] = [call.heap0[obj] EXCEPT ![k] = v]
     /\ Unmatched(call.heap0[obj], SlotName(t)) =>
          /\ DOMAIN h[obj] = DOMAIN call.heap0[obj] \cup {SlotName(t)}
          /\ h[obj][SlotName(t)] = v
          /\ \A k \in DOMAIN call.heap0[obj] : h[obj][k] = call.heap0[obj][k]

\* an assignment of a literal through a slot
IsPlainAssignment(ast, h) ==
  /\ ast.type = "AssignmentExpression"
  /\ ast.operator = "="
  /\ IsSlot(ast.left, h)
  /\ ast.right.type = "Literal"

\* an update through a slot whose name matches a key holding a number
IsMatchingUpdate(ast, h) ==
  /\ ast.type = "UpdateExpression"
  /\ IsSlot(ast.argument, h)
  /\ \E k \in Matches(h[SlotObject(ast.argument, h)], SlotName(ast.argument)) :
       h[SlotObject(ast.argument, h)][k].t = "num"

\* the number an update leaves in the slot it matched
UpdatedValue(ast, h) ==
  LET o == h[SlotObject(ast.argument, h)]
      k == CHOOSE k \in Matches(o, SlotName(ast.argument)) : TRUE
  IN Num(o[k].n + (IF ast.operator = "++" THEN 1 ELSE -1))

\* reads and writes under case-insensitivity; reads of the names in except
\* are left out
CaseInsensitiveSlots(call, h, except) ==
  /\ (/\ IsSlot(call.ast, call.heap0)
      /\ ~(call.ast.type = "Identifier" /\ except[call.ast.name])
      /\ Matches(call.heap0[SlotObject(call.ast, call.heap0)],
                 SlotName(call.ast)) # {}) =>
       ReadsMatch(call, call.ast)
  /\ IsPlainAssignment(call.ast, call.heap0) =>
       WritesMatch(call, h, call.ast.left, call.ast.right.value)
  /\ IsMatchingUpdate(call.ast, call.heap0) =>
       WritesMatch(call, h, call.ast.argument, UpdatedValue(call.ast, call.heap0))

IdentifierNames == {"foo", "THIS", "TRUE", "k", "x"}

C8_SensitiveByDefault ==
  (last.called /\ ~Insensitive(last)) =>
    /\ \A i \in 1..Len(last.log) : last.log[i].ev # "literals"
    /\ last.ast = PIdFoo => last.v = UNDEF

\* two passes over the same AST in succession, with the same options in
\* effect
TwoPasses ==
  /\ calls >= 2
  /\ prev.called
  /\ last.called
  /\ prev.ast = last.ast
  /\ prev.defaults = last.defaults

\* the second pass returned what the first did, left the caller's objects as
\* it found them, and the annotations with the contents they had
SecondPassAlike ==
  /\ last.c = prev.c
  /\ Shown(last.v, heap) = Shown(prev.v, last.heap0)
  /\ CallerObjects(heap) = CallerObjects(last.heap0)
  /\ DOMAIN ann = DOMAIN last.ann0
  /\ \A id \in DOMAIN ann : Shown(ann[id], heap) = Shown(last.ann0[id], last.heap0)

\* the call performed no assignment and no update
NoStore(call) == \A i \in 1..Len(call.log) : call.log[i].ev # "store"

BoundAsDeclared(call, h, c) ==
  /\ call.ast = PDestructure =>
       /\ c["a"] = Num(1)
       /\ c["b"] = Num(2)
       /\ c["c"] = Num(3)
       /\ c["rest"].t = "obj"
       /\ h[c["rest"].id] = [d |-> Num(4)]
  /\ call.ast = PRest =>
       /\ c["p"] = Num(1)
       /\ c["r"] = Arr(<<Num(2), Num(3)>>)
  /\ call.ast = PDefaults =>
       /\ c["p"] = Num(5)
       /\ c["d"] = Num(4)
       /\ c["e"] = Num(7)

\* C10: calling a closure binds an array pattern's element j to the j-th
\* item of the argument and an object pattern's key to the argument's value
\* for it, each default used only when the item or value is absent; a rest
\* spread in an object pattern gets exactly the argument's keys not named
\* before it, a rest parameter the arguments from its position on; for
\* ([a, b = 2], {c, ...rest}) called with ([1], {c: 3, d: 4}) that is a=1,
\* b=2, c=3, rest={d: 4}, and the argument object stays as it was.
C10_Destructuring ==
  last.called =>
    /\ \A i \in 1..Len(last.log) :
         last.log[i].ev = "arrowContext" =>
           BoundAsDeclared(last, heap, heap[last.log[i].v.id])
    /\ last.ast \in {PDestructure, PRest, PDefaults} =>
         /\ \E i \in 1..Len(last.log) : last.log[i].ev = "arrowContext"
         /\ CallerObjects(heap) = CallerObjects(last.heap0)

C10_Witness ==
  /\ last.called
  /\ last.async
  /\ last.ast = PDestructure
  /\ last.c = "ok"
  /\ \E i \in 1..Len(last.log) :
       /\ last.log[i].ev = "arrowContext"
       /\ heap[heap[last.log[i].v.id]["rest"].id] = [d |-> Num(4)]

\* the values property p of an object expression supplied for key k: the one
\* a regular property stored, or the source's when a spread copied it
Supplied(call, h, p, k) ==
  {call.log[i].v : i \in {i \in 1..Len(call.log) :
      /\ call.log[i].ev = "set"
      /\ call.log[i].id = p.id
      /\ call.log[i].key = k}}
  \cup
  {h[call.log[i].v.id][k] : i \in {i \in 1..Len(call.log) :
      /\ call.log[i].ev = "assign"
      /\ call.log[i].id = p.id
      /\ call.log[i].v.t = "obj"
      /\ k \in DOMAIN h[call.log[i].v.id]}}

\* the properties of the object expression that supplied key k, by position
Suppliers(call, h, k) ==
  {j \in 1..Len(call.ast.properties) :
     Supplied(call, h, call.ast.properties[j], k) # {}}

\* C11: in both modes the properties of an object expression take effect in
\* declaration order: a key supplied by several properties holds, in the
\* result, the value of the one declared last; {a: 1, ...s} with s = {a: 2}
\* yields a = 2 and {...s, a: 1} yields a = 1.
C11_DeclarationOrder ==
  (last.called /\ last.ast.type = "ObjectExpression" /\ last.c = "ok") =>
    \A k \in DOMAIN heap[last.v.id] :
      \A j \in Suppliers(last, heap, k) :
        (\A q \in Suppliers(last, heap, k) : q <= j) =>
          heap[last.v.id][k] \in Supplied(last, heap, last.ast.properties[j], k)

\* the arrow functions of the model, alone and called, and those declared
\* async
ArrowNodes == {PArrow, PArrowAsync, PArrowNotAsync}
ArrowCalls == {PCallArrow, PCallArrowAsync, PCallArrowNotAsync}

\* the value v, as a call returned it, is a deferred value that completed
\* with w
CompletedWith(call, v, w) ==
  /\ v.t = "prom"
  /\ call.proms[v.p].st = "ok"
  /\ call.proms[v.p].v = w

\* C12: in either mode, evaluating an arrow function, whether declared async,
\* declared not async or unmarked, ends and yields a callable closure; calling
\* it returns the body's value at once when the arrow is not async, and a
\* deferred value that completes with the body's value when it is.
C12_ArrowModes ==
  last.called =>
    /\ last.ast \in ArrowNodes => (last.c = "ok" /\ IsFunction(last.v))
    /\ last.ast \in ArrowCalls =>
         /\ last.c = "ok"
         /\ IF Truthy(last.ast.callee.async) /\ ~last.async
            THEN CompletedWith(last, last.v, Num(1))
            ELSE last.v = Num(1)

\* the name a callee goes by: an identifier's, or a member's property name
CalleeName(callee) ==
  IF callee.type = "Identifier" THEN callee.name ELSE callee.property.name

\* the value the callee of the new expression of a call resolved to
IsCalleeOf(call, i) ==
  /\ call.log[i].ev = "callee"
  /\ call.log[i].id = call.ast.callee.id

\* the values new can instantiate
Instantiable(v) == v = Native("Box")

\* a falsy value reached through a member callee marked optional is replaced
\* by a function returning nothing before new sees it
ReplacedByNoop(callee, v) ==
  /\ ~Truthy(v)
  /\ callee.type = "MemberExpression"
  /\ callee.optional

FailedWith(call, kind, name) == call.c = "throw" /\ call.v = Err(kind, name)

\* C13 as stated: a new expression whose callee resolves to a value that
\* cannot be instantiated, callable or not, fails with the Not-Constructible
\* error naming the callee, in both modes, and never with Not-Callable.
C13_NotConstructibleAll ==
  (last.called /\ last.ast.type = "NewExpression") =>
    \A i \in 1..Len(last.log) :
      (IsCalleeOf(last, i) /\ ~Instantiable(last.log[i].v)) =>
        FailedWith(last, "NotConstructible", CalleeName(last.ast.callee))

\* C13, amended: such a new expression fails with the Not-Callable error
\* naming the callee when the value is not callable, as a call would, unless
\* the value is falsy and the callee a member marked optional; in that case,
\* and when the value is callable but not a constructor, it fails with the
\* Not-Constructible error naming the callee.
C13_NotConstructible ==
  (last.called /\ last.ast.type = "NewExpression") =>
    \A i \in 1..Len(last.log) :
      (IsCalleeOf(last, i) /\ ~Instantiable(last.log[i].v)) =>
        IF ~IsFunction(last.log[i].v) /\ ~ReplacedByNoop(last.ast.callee, last.log[i].v)
        THEN FailedWith(last, "NotCallable", CalleeName(last.ast.callee))
        ELSE FailedWith(last, "NotConstructible", CalleeName(last.ast.callee))

C13_Witness ==
  /\ last.called
  /\ last.async
  /\ last.ast = PNewMember
  /\ \E i \in 1..Len(last.log) :
       IsCalleeOf(last, i) /\ last.log[i].v = Native("one")
  /\ FailedWith(last, "NotConstructible", "m")

\* C14: every node evaluation a top-level call gives rise to, in
\* sub-expressions, spread arguments, the operand of await, an arrow function
\* evaluated again under the other mode and the body of a closure that is
\* called, runs under the options in effect for the call: those the caller
\* passed, else the process-wide default.
C14_OptionsInherited ==
  last.called =>
    \A i \in 1..Len(last.log) :
      last.log[i].ev = "options" => last.log[i].v = OptionsInEffect(last)
====
